---- MODULE Spec2Model ----
(***************************************************************************)
(* Model of supabase/functions/_shared/usage-tracking-fixed.ts:            *)
(* withUsageTracking(handler, serviceName, endpointId) and logUsage(data). *)
(*                                                                         *)
(* One behaviour of this module is one invocation of the handler that      *)
(* withUsageTracking returns.  The wrapper keeps no state between          *)
(* invocations, so one invocation with every input is the whole program.   *)
(* The asynchronous function is cut at its await points; the storage       *)
(* insert started by logUsage is a background task that settles at any     *)
(* later time, or never.                                                   *)
(***************************************************************************)
EXTENDS Integers, Sequences, FiniteSets, TLC

\* The clock Date.now() reads takes the values 0..MaxTime.
MaxTime == 3

\* JavaScript null and undefined, and the values `||` and `if` treat as false.
NULL == "<null>"
UNDEFINED == "<undefined>"
Falsy == {NULL, UNDEFINED, ""}

\* a || b
Or(a, b) == IF a \in Falsy THEN b ELSE a

\* The arguments withUsageTracking is called with.
serviceName == "svc"
EndpointIds == {UNDEFINED, "ep-1"}

\* The request bodies an invocation may arrive with.
Bodies ==
  { "", "plain text", "null", "42", "{}",
    "{\"project_name\":\"acme\"}",
    "{\"project_name\":\"\"}",
    "{\"project_name\":\"error\"}" }

\* The values of the X-Project-Name header (NULL: the header is absent).
ProjectHeaders == {NULL, "", "beta"}

Requests ==
  [ method : {"POST"},
    url : {"https://fn.example/invoke"},
    xProjectName : ProjectHeaders,
    userAgent : {"curl/8"},
    origin : {NULL},
    body : Bodies ]

\* req.headers.get(name)
HeadersGet(r, name) ==
  CASE name = "X-Project-Name" -> r.xProjectName
    [] name = "user-agent" -> r.userAgent
    [] name = "origin" -> r.origin
    [] OTHER -> NULL

\* Response.json() on a body text: ok = FALSE is the SyntaxError of a text
\* that is not JSON; kind is the type of the parsed value; project_name is
\* what reading .project_name off the parsed value gives.
JsonParse(text) ==
  CASE text = "null" ->
         [ok |-> TRUE, kind |-> "null", project_name |-> UNDEFINED]
    [] text = "42" ->
         [ok |-> TRUE, kind |-> "number", project_name |-> UNDEFINED]
    [] text = "{}" ->
         [ok |-> TRUE, kind |-> "object", project_name |-> UNDEFINED]
    [] text = "{\"project_name\":\"acme\"}" ->
         [ok |-> TRUE, kind |-> "object", project_name |-> "acme"]
    [] text = "{\"project_name\":\"\"}" ->
         [ok |-> TRUE, kind |-> "object", project_name |-> ""]
    [] text = "{\"project_name\":\"error\"}" ->
         [ok |-> TRUE, kind |-> "object", project_name |-> "error"]
    [] OTHER ->
         [ok |-> FALSE, kind |-> "none", project_name |-> UNDEFINED]

\* What the handler does: the responses it may return, the values it may throw.
NoResponse == [status |-> 0, contentType |-> NULL, body |-> NULL]
HandlerResponses ==
  { [status |-> 200, contentType |-> "text/plain", body |-> "ok"],
    [status |-> 404, contentType |-> "application/json",
     body |-> "{\"error\":\"not found\"}"],
    [status |-> 500, contentType |-> "text/plain", body |-> "handler failed"] }

\* An Error object, a thrown string (reading .message off it gives undefined)
\* and undefined itself, as a bare Promise.reject() rejects with (reading
\* .message off it is a TypeError).
NoError == [kind |-> "none", message |-> UNDEFINED]
ThrownValues ==
  { [kind |-> "Error", message |-> "boom"],
    [kind |-> "string", message |-> UNDEFINED],
    [kind |-> "undefined", message |-> UNDEFINED] }
Nullish(v) == v.kind \in {"undefined", "null"}

VARIABLES
  req,            \* the request the wrapper was called with
  endpointId,     \* withUsageTracking's optional third argument
  envConfigured,  \* SUPABASE_URL and SUPABASE_SERVICE_ROLE_KEY are set
  now,            \* the clock Date.now() reads
  pc,             \* where the wrapper is
  startTime, projectName, response, error, responseTimeMs,
  reqBodyUsed,    \* req.bodyUsed, of the original request
  cloneBodyUsed,  \* bodyUsed of the clone made by req.clone()
  handlerSaw,     \* the request as the handler received it
  settled,        \* how the handler's promise settled
  entryClock, parsedClock, settleClock,  \* the clock at these three moments
  dispatched,     \* the records logUsage was called with, in order
  task,           \* the logUsage call: "none", "pending", "failed", "settled"
  inflight,       \* the row of the insert that is pending
  table,          \* service_usage_logs
  diag,           \* console.log / console.error lines
  returned,       \* the response the wrapper resolved with
  rejection       \* the value the wrapper rejected with

vars ==
  << req, endpointId, envConfigured, now, pc, startTime, projectName, response,
     error, responseTimeMs, reqBodyUsed, cloneBodyUsed, handlerSaw, settled,
     entryClock, parsedClock, settleClock, dispatched, task, inflight, table,
     diag, returned, rejection >>

NoRow == [service_name |-> NULL]
NotSettled == [kind |-> "pending", value |-> NoError]
NotSeen == [bodyUsed |-> FALSE, body |-> NULL, called |-> FALSE]

Init ==
  /\ req \in Requests
  /\ endpointId \in EndpointIds
  /\ envConfigured \in BOOLEAN
  /\ now = 0
  /\ pc = "entry"
  /\ startTime = 0
  /\ projectName = UNDEFINED
  /\ response = NoResponse
  /\ error = NoError
  /\ responseTimeMs = 0
  /\ reqBodyUsed = FALSE
  /\ cloneBodyUsed = FALSE
  /\ handlerSaw = NotSeen
  /\ settled = NotSettled
  /\ entryClock = 0
  /\ parsedClock = 0
  /\ settleClock = 0
  /\ dispatched = << >>
  /\ task = "none"
  /\ inflight = NoRow
  /\ table = << >>
  /\ diag = << >>
  /\ returned = NoResponse
  /\ rejection = NULL

\* Time passes while the invocation is in progress.
Tick ==
  /\ pc \notin {"done", "rejected"}
  /\ now < MaxTime
  /\ now' = now + 1
  /\ UNCHANGED << req, endpointId, envConfigured, pc, startTime, projectName,
                  response, error, responseTimeMs, reqBodyUsed, cloneBodyUsed,
                  handlerSaw, settled, entryClock, parsedClock, settleClock,
                  dispatched, task, inflight, table, diag, returned, rejection >>

\* Line 10: const startTime = Date.now()
Enter ==
  /\ pc = "entry"
  /\ startTime' = now
  /\ entryClock' = now
  /\ pc' = "parse"
  /\ UNCHANGED << req, endpointId, envConfigured, now, projectName, response,
                  error, responseTimeMs, reqBodyUsed, cloneBodyUsed, handlerSaw,
                  settled, parsedClock, settleClock, dispatched, task, inflight,
                  table, diag, returned, rejection >>

\* A variant of ExtractProjectName in which the header, when set, wins over
\* the body.
ExtractProjectName_headerFirst(r, cloneThrows) ==
  LET body == JsonParse(r.body)
  IN  IF HeadersGet(r, "X-Project-Name") \notin Falsy
      THEN HeadersGet(r, "X-Project-Name")
      ELSE IF ~cloneThrows /\ body.ok /\ body.project_name \notin Falsy
           THEN body.project_name
           ELSE "default"

\* Lines 16-26: the project name of a request whose body is read through a
\* clone.  cloneThrows: req.clone() throws because the body was already read.
\* A body that is not JSON, and a body that is the JSON null (reading
\* .project_name off null throws inside the inner try), reach the catch.
ExtractProjectName(r, cloneThrows) ==
  LET body == JsonParse(r.body)
  IN  IF cloneThrows \/ ~body.ok \/ body.kind = "null"
      THEN Or(HeadersGet(r, "X-Project-Name"), "default")
      ELSE IF body.project_name \notin Falsy
           THEN body.project_name
           ELSE "default"

\* A variant of ParseBody that reads req.json() without cloning.
ParseBody_readsOriginal ==
  /\ pc = "parse"
  /\ reqBodyUsed' = TRUE
  /\ projectName' = ExtractProjectName(req, reqBodyUsed)
  /\ parsedClock' = now
  /\ pc' = "call"
  /\ UNCHANGED << req, endpointId, envConfigured, now, startTime, response,
                  error, responseTimeMs, cloneBodyUsed, handlerSaw, settled,
                  entryClock, settleClock, dispatched, task, inflight, table,
                  diag, returned, rejection >>

\* A variant of ParseBody that starts the timer once the body has been parsed.
ParseBody_restartsTimer ==
  /\ pc = "parse"
  /\ cloneBodyUsed' = (IF reqBodyUsed THEN cloneBodyUsed ELSE TRUE)
  /\ projectName' = ExtractProjectName(req, reqBodyUsed)
  /\ parsedClock' = now
  /\ startTime' = now
  /\ pc' = "call"
  /\ UNCHANGED << req, endpointId, envConfigured, now, response, error,
                  responseTimeMs, reqBodyUsed, handlerSaw, settled, entryClock,
                  settleClock, dispatched, task, inflight, table, diag,
                  returned, rejection >>

\* Lines 18-26: await req.clone().json() and the choice of projectName.  The
\* clone's body is read; the original request is left as it was.
ParseBody ==
  /\ pc = "parse"
  /\ cloneBodyUsed' = (IF reqBodyUsed THEN cloneBodyUsed ELSE TRUE)
  /\ projectName' = ExtractProjectName(req, reqBodyUsed)
  /\ parsedClock' = now
  /\ pc' = "call"
  /\ UNCHANGED << req, endpointId, envConfigured, now, startTime, response,
                  error, responseTimeMs, reqBodyUsed, handlerSaw, settled,
                  entryClock, settleClock, dispatched, task, inflight, table,
                  diag, returned, rejection >>

\* Line 29: handler(req) is called with the original request.
CallHandler ==
  /\ pc = "call"
  /\ handlerSaw' = [bodyUsed |-> reqBodyUsed, body |-> req.body, called |-> TRUE]
  /\ pc' = "handler"
  /\ UNCHANGED << req, endpointId, envConfigured, now, startTime, projectName,
                  response, error, responseTimeMs, reqBodyUsed, cloneBodyUsed,
                  settled, entryClock, parsedClock, settleClock, dispatched,
                  task, inflight, table, diag, returned, rejection >>

\* Lines 29-32: the handler's promise fulfils; response is assigned and the
\* elapsed time is taken in the continuation.
HandlerReturns ==
  /\ pc = "handler"
  /\ \E r \in HandlerResponses :
       /\ response' = r
       /\ settled' = [kind |-> "returned", value |-> r]
  /\ settleClock' = now
  /\ responseTimeMs' = now - startTime
  /\ pc' = "log"
  /\ UNCHANGED << req, endpointId, envConfigured, now, startTime, projectName,
                  error, reqBodyUsed, cloneBodyUsed, handlerSaw, entryClock,
                  parsedClock, dispatched, task, inflight, table, diag,
                  returned, rejection >>

\* Lines 29, 52-54: the handler throws or its promise rejects; the catch
\* block stores the value as error and takes the elapsed time.
HandlerThrows ==
  /\ pc = "handler"
  /\ \E v \in ThrownValues :
       /\ error' = v
       /\ settled' = [kind |-> "threw", value |-> v]
  /\ settleClock' = now
  /\ responseTimeMs' = now - startTime
  /\ pc' = "logError"
  /\ UNCHANGED << req, endpointId, envConfigured, now, startTime, projectName,
                  response, reqBodyUsed, cloneBodyUsed, handlerSaw, entryClock,
                  parsedClock, dispatched, task, inflight, table, diag,
                  returned, rejection >>

\* new Date().toISOString()
ToISOString(t) == "1970-01-01T00:00:00.00" \o ToString(t) \o "Z"

\* Lines 107-118: the row logUsage inserts.
InsertRow(data) ==
  [ service_name |-> data.serviceName,
    endpoint_id |-> Or(data.endpointId, NULL),
    project_name |-> data.projectName,
    request_timestamp |-> data.requestTimestamp,
    response_status |-> data.responseStatus,
    response_time_ms |-> data.responseTimeMs,
    request_payload_size |-> 0,
    response_payload_size |-> 0,
    error_message |-> data.errorMessage,
    request_metadata |-> data.requestMetadata ]

\* Lines 87-118: the call logUsage(data), up to its await.  An async function
\* runs synchronously to its first await: the environment is read and the
\* client created inside the try, so a missing configuration is caught and
\* reported (lines 125-127); otherwise the insert is started and left pending.
\* The call itself never throws, and the promise it returns never rejects.
logUsage(data) ==
  /\ dispatched' = Append(dispatched, data)
  /\ IF envConfigured
     THEN /\ task' = "pending"
          /\ inflight' = InsertRow(data)
          /\ diag' = diag
     ELSE /\ task' = "failed"
          /\ inflight' = inflight
          /\ diag' = Append(diag, "error: Error in usage logging:")

\* A variant of LogSuccess that records every returned response as a 200.
LogSuccess_statusOk ==
  /\ pc = "log"
  /\ logUsage([ serviceName |-> serviceName,
                endpointId |-> endpointId,
                projectName |-> projectName,
                requestTimestamp |-> ToISOString(now),
                responseStatus |-> 200,
                responseTimeMs |-> responseTimeMs,
                errorMessage |-> NULL,
                requestMetadata |->
                  [ method |-> req.method,
                    url |-> req.url,
                    userAgent |-> HeadersGet(req, "user-agent"),
                    origin |-> HeadersGet(req, "origin") ] ])
  /\ pc' = "return"
  /\ UNCHANGED << req, endpointId, envConfigured, now, startTime, projectName,
                  response, error, responseTimeMs, reqBodyUsed, cloneBodyUsed,
                  handlerSaw, settled, entryClock, parsedClock, settleClock,
                  table, returned, rejection >>

\* A variant of LogSuccess in which a missing configuration is not caught
\* inside the logger but thrown into the wrapper's try block.
LogSuccess_propagates ==
  /\ pc = "log"
  /\ IF envConfigured
     THEN /\ logUsage([ serviceName |-> serviceName,
                        endpointId |-> endpointId,
                        projectName |-> projectName,
                        requestTimestamp |-> ToISOString(now),
                        responseStatus |-> response.status,
                        responseTimeMs |-> responseTimeMs,
                        errorMessage |-> NULL,
                        requestMetadata |->
                          [ method |-> req.method,
                            url |-> req.url,
                            userAgent |-> HeadersGet(req, "user-agent"),
                            origin |-> HeadersGet(req, "origin") ] ])
          /\ pc' = "return"
          /\ UNCHANGED error
     ELSE /\ error' = [kind |-> "Error", message |-> "supabaseUrl is required."]
          /\ pc' = "logError"
          /\ UNCHANGED << dispatched, task, inflight, diag >>
  /\ UNCHANGED << req, endpointId, envConfigured, now, startTime, projectName,
                  response, responseTimeMs, reqBodyUsed, cloneBodyUsed,
                  handlerSaw, settled, entryClock, parsedClock, settleClock,
                  table, returned, rejection >>

\* Lines 35-49: the record of a handler that returned, handed to logUsage.
LogSuccess ==
  /\ pc = "log"
  /\ logUsage([ serviceName |-> serviceName,
                endpointId |-> endpointId,
                projectName |-> projectName,
                requestTimestamp |-> ToISOString(now),
                responseStatus |-> response.status,
                responseTimeMs |-> responseTimeMs,
                errorMessage |-> NULL,
                requestMetadata |->
                  [ method |-> req.method,
                    url |-> req.url,
                    userAgent |-> HeadersGet(req, "user-agent"),
                    origin |-> HeadersGet(req, "origin") ] ])
  /\ pc' = "return"
  /\ UNCHANGED << req, endpointId, envConfigured, now, startTime, projectName,
                  response, error, responseTimeMs, reqBodyUsed, cloneBodyUsed,
                  handlerSaw, settled, entryClock, parsedClock, settleClock,
                  table, returned, rejection >>

\* A variant of LogFailure that keeps the project name of the request.
LogFailure_keepsProjectName ==
  /\ pc = "logError"
  /\ IF Nullish(error)
     THEN /\ rejection' = "TypeError: Cannot read properties of undefined"
          /\ pc' = "rejected"
          /\ UNCHANGED << dispatched, task, inflight, diag >>
     ELSE /\ logUsage([ serviceName |-> serviceName,
                        endpointId |-> endpointId,
                        projectName |-> projectName,
                        requestTimestamp |-> ToISOString(now),
                        responseStatus |-> 500,
                        responseTimeMs |-> responseTimeMs,
                        errorMessage |-> error.message,
                        requestMetadata |->
                          [ method |-> req.method, url |-> req.url ] ])
          /\ pc' = "returnError"
          /\ UNCHANGED rejection
  /\ UNCHANGED << req, endpointId, envConfigured, now, startTime, projectName,
                  response, error, responseTimeMs, reqBodyUsed, cloneBodyUsed,
                  handlerSaw, settled, entryClock, parsedClock, settleClock,
                  table, returned >>

\* Lines 57-69: the record of a handler that threw.  The argument reads
\* error.message: when the thrown value is undefined or null that read is a
\* TypeError raised inside the catch block, before logUsage is called, and the
\* wrapper's promise rejects with it.
LogFailure ==
  /\ pc = "logError"
  /\ IF Nullish(error)
     THEN /\ rejection' = "TypeError: Cannot read properties of undefined"
          /\ pc' = "rejected"
          /\ UNCHANGED << dispatched, task, inflight, diag >>
     ELSE /\ logUsage([ serviceName |-> serviceName,
                        endpointId |-> endpointId,
                        projectName |-> "error",
                        requestTimestamp |-> ToISOString(now),
                        responseStatus |-> 500,
                        responseTimeMs |-> responseTimeMs,
                        errorMessage |-> error.message,
                        requestMetadata |->
                          [ method |-> req.method, url |-> req.url ] ])
          /\ pc' = "returnError"
          /\ UNCHANGED rejection
  /\ UNCHANGED << req, endpointId, envConfigured, now, startTime, projectName,
                  response, error, responseTimeMs, reqBodyUsed, cloneBodyUsed,
                  handlerSaw, settled, entryClock, parsedClock, settleClock,
                  table, returned >>

\* A variant of ReturnResponse that awaits the logging call before returning.
ReturnResponse_awaitsLogging ==
  /\ pc = "return"
  /\ task # "pending"
  /\ returned' = response
  /\ pc' = "done"
  /\ UNCHANGED << req, endpointId, envConfigured, now, startTime, projectName,
                  response, error, responseTimeMs, reqBodyUsed, cloneBodyUsed,
                  handlerSaw, settled, entryClock, parsedClock, settleClock,
                  dispatched, task, inflight, table, diag, rejection >>

\* Line 51: return response
ReturnResponse ==
  /\ pc = "return"
  /\ returned' = response
  /\ pc' = "done"
  /\ UNCHANGED << req, endpointId, envConfigured, now, startTime, projectName,
                  response, error, responseTimeMs, reqBodyUsed, cloneBodyUsed,
                  handlerSaw, settled, entryClock, parsedClock, settleClock,
                  dispatched, task, inflight, table, diag, rejection >>

\* Lines 73-76: JSON.stringify({error: 'Internal server error', message}),
\* which leaves out a property whose value is undefined.
ErrorBody(message) ==
  IF message = UNDEFINED
  THEN "{\"error\":\"Internal server error\"}"
  ELSE "{\"error\":\"Internal server error\",\"message\":\"" \o message \o "\"}"

\* Lines 72-81: the response synthesized for a handler that threw.
ReturnError ==
  /\ pc = "returnError"
  /\ returned' = [ status |-> 500,
                   contentType |-> "application/json",
                   body |-> ErrorBody(error.message) ]
  /\ pc' = "done"
  /\ UNCHANGED << req, endpointId, envConfigured, now, startTime, projectName,
                  response, error, responseTimeMs, reqBodyUsed, cloneBodyUsed,
                  handlerSaw, settled, entryClock, parsedClock, settleClock,
                  dispatched, task, inflight, table, diag, rejection >>

\* What the wrapper's own variables are: the insert's settling touches none.
wrapperVars ==
  << req, endpointId, envConfigured, now, pc, startTime, projectName, response,
     error, responseTimeMs, reqBodyUsed, cloneBodyUsed, handlerSaw, settled,
     entryClock, parsedClock, settleClock, dispatched, returned, rejection >>

\* Lines 105-124: the awaited insert resolves without an error; the row is
\* in the table and the success trace is written.
InsertSucceeds ==
  /\ task = "pending"
  /\ table' = Append(table, inflight)
  /\ diag' = Append(diag, "log: Usage logged successfully for " \o serviceName)
  /\ task' = "settled"
  /\ inflight' = NoRow
  /\ UNCHANGED wrapperVars

\* Lines 105, 120-121: the awaited insert resolves with {error}.
InsertReportsError ==
  /\ task = "pending"
  /\ diag' = Append(diag, "error: Failed to log usage:")
  /\ task' = "settled"
  /\ inflight' = NoRow
  /\ UNCHANGED table
  /\ UNCHANGED wrapperVars

\* Lines 105, 125-127: the awaited insert rejects; the catch reports it.
InsertThrows ==
  /\ task = "pending"
  /\ diag' = Append(diag, "error: Error in usage logging:")
  /\ task' = "settled"
  /\ inflight' = NoRow
  /\ UNCHANGED table
  /\ UNCHANGED wrapperVars

Next ==
  \/ Tick
  \/ Enter
  \/ ParseBody
  \/ CallHandler
  \/ HandlerReturns
  \/ HandlerThrows
  \/ LogSuccess
  \/ LogFailure
  \/ ReturnResponse
  \/ ReturnError
  \/ InsertSucceeds
  \/ InsertReportsError
  \/ InsertThrows

Spec == Init /\ [][Next]_vars

\* The wrapper's own steps after the handler settled are synchronous code: once
\* reached they run.  Nothing promises that the storage insert ever settles.
LiveSpec ==
  /\ Spec
  /\ WF_vars(LogSuccess)
  /\ WF_vars(LogFailure)
  /\ WF_vars(ReturnResponse)
  /\ WF_vars(ReturnError)

(***************************************************************************)
(* The properties.                                                         *)
(***************************************************************************)

Finished == pc \in {"done", "rejected"}
HandlerReturned == settled.kind = "returned"
HandlerThrew == settled.kind = "threw"
Record == dispatched[1]
ErrorResponse(message) ==
  [ status |-> 500,
    contentType |-> "application/json",
    body |-> ErrorBody(message) ]

\* C1: every invocation dispatches exactly one usage record to logUsage, never
\* none and never two, whether the handler returns or throws, whatever the
\* thrown value.
C1_ExactlyOneRecord ==
  /\ Len(dispatched) <= 1
  /\ Finished => Len(dispatched) = 1

\* C2, as claimed: when the handler returns a response, of any status, the
\* dispatched record carries that status, errorMessage = null and the project
\* name derived from the request, which is never "error".
C2_SuccessRecordNeverError ==
  (HandlerReturned /\ pc \in {"return", "done"}) =>
    /\ Len(dispatched) = 1
    /\ Record.responseStatus = settled.value.status
    /\ Record.errorMessage = NULL
    /\ Record.projectName = ExtractProjectName(req, FALSE)
    /\ Record.projectName # "error"

\* C2, amended: when the handler returns a response, of any status, the
\* dispatched record carries that status, errorMessage = null and the project
\* name derived from the request; that name is "error" only when the request
\* itself gives "error" as its project name.
C2_SuccessRecord ==
  (HandlerReturned /\ pc \in {"return", "done"}) =>
    /\ Len(dispatched) = 1
    /\ Record.responseStatus = settled.value.status
    /\ Record.errorMessage = NULL
    /\ Record.projectName = ExtractProjectName(req, FALSE)
    /\ Record.projectName = "error" =>
         \/ JsonParse(req.body).project_name = "error"
         \/ HeadersGet(req, "X-Project-Name") = "error"

C2_Witness ==
  /\ pc = "done"
  /\ HandlerReturned
  /\ settled.value.status = 404
  /\ Len(dispatched) = 1
  /\ Record.responseStatus = 404
  /\ Record.projectName = "acme"

\* C3: when the handler throws, the wrapper does not re-throw or reject: it
\* returns a response with status 500, Content-Type application/json and the
\* body {error: "Internal server error", message: <the thrown message>}.
C3_ThrowBecomes500 ==
  (HandlerThrew /\ Finished) =>
    /\ pc = "done"
    /\ rejection = NULL
    /\ returned = ErrorResponse(settled.value.message)

\* C4: the usage record dispatched for a handler that threw has projectName
\* "error" whatever the request carried, responseStatus 500, errorMessage equal
\* to the thrown value's message, and a metadata of method and url only.
C4_ErrorRecord ==
  HandlerThrew =>
    \A i \in 1..Len(dispatched) :
      /\ dispatched[i].projectName = "error"
      /\ dispatched[i].responseStatus = 500
      /\ dispatched[i].errorMessage = settled.value.message
      /\ DOMAIN dispatched[i].requestMetadata = {"method", "url"}
      /\ dispatched[i].requestMetadata.method = req.method
      /\ dispatched[i].requestMetadata.url = req.url

C4_Witness ==
  /\ pc = "done"
  /\ HandlerThrew
  /\ settled.value.kind = "Error"
  /\ Len(dispatched) = 1
  /\ Record.errorMessage = "boom"
  /\ ExtractProjectName(req, FALSE) = "acme"

\* C5: what the wrapper returns is decided by the handler's behaviour alone,
\* whatever the logging does (configuration missing, insert pending, succeeded,
\* answered with an error, or threw): the handler's own response unchanged
\* when it returned one, the synthesized 500 when it threw; and the wrapper
\* never throws after a logging attempt.
C5_ResponseIndependentOfLogging ==
  /\ (pc = "done" /\ HandlerReturned) => returned = settled.value
  /\ (pc = "done" /\ HandlerThrew) =>
       returned = ErrorResponse(settled.value.message)
  /\ pc = "done" => rejection = NULL
  /\ dispatched # << >> => pc # "rejected"

C5_Witness ==
  /\ pc = "done"
  /\ HandlerReturned
  /\ returned = settled.value
  /\ returned.status = 200
  /\ ~envConfigured
  /\ task = "failed"
  /\ diag # << >>

\* C6: the wrapper returns without waiting for the logging call: once the
\* record is dispatched the response is returned even if the insert is still
\* pending or never completes, and the settling of the insert changes nothing
\* but the diagnostic channel and the store.
C6_ReturnsWithoutWaiting ==
  /\ (pc \in {"return", "returnError"}) ~> (pc = "done")
  /\ [][task = "pending" /\ task' # "pending" =>
          /\ UNCHANGED << pc, returned, rejection, response, dispatched >>
          /\ diag' # diag]_vars

C6_Witness ==
  /\ pc = "done"
  /\ returned # NoResponse
  /\ task = "pending"

\* C7, as claimed: when the handler returns, the record's projectName is the
\* body's project_name when the body is JSON carrying that field, the
\* X-Project-Name header's value when the body is not parseable and the header
\* is present, and "default" when the body is not parseable and the header is
\* absent.
C7_ProjectNameAsClaimed ==
  (HandlerReturned /\ dispatched # << >>) =>
    LET body == JsonParse(req.body)
        header == HeadersGet(req, "X-Project-Name")
    IN  /\ (body.ok /\ body.kind = "object" /\ body.project_name # UNDEFINED) =>
             Record.projectName = body.project_name
        /\ (~body.ok /\ header # NULL) => Record.projectName = header
        /\ (~body.ok /\ header = NULL) => Record.projectName = "default"

\* C7, amended: the record's projectName is the body's project_name when the
\* body is JSON carrying a non-empty project_name; when the body is not
\* parseable it is the X-Project-Name header's value if that header is present
\* and not empty, and "default" if the header is absent or empty.
C7_ProjectName ==
  (HandlerReturned /\ dispatched # << >>) =>
    LET body == JsonParse(req.body)
        header == HeadersGet(req, "X-Project-Name")
    IN  /\ (body.ok /\ body.kind = "object" /\ body.project_name \notin Falsy) =>
             Record.projectName = body.project_name
        /\ (~body.ok /\ header \notin Falsy) => Record.projectName = header
        /\ (~body.ok /\ header \in Falsy) => Record.projectName = "default"

C7_Witness ==
  /\ HandlerReturned
  /\ dispatched # << >>
  /\ ~JsonParse(req.body).ok
  /\ HeadersGet(req, "X-Project-Name") = "beta"
  /\ Record.projectName = "beta"

\* C8: only a clone of the request is read for the project name: the handler
\* is called with the original request, whose body is unread and intact at
\* that moment, whether or not the body parsed.
C8_HandlerGetsUnreadBody ==
  /\ handlerSaw.called =>
       /\ handlerSaw.bodyUsed = FALSE
       /\ handlerSaw.body = req.body
       /\ cloneBodyUsed
  /\ pc \in {"parse", "call"} => ~reqBodyUsed

C8_Witness ==
  /\ handlerSaw.called
  /\ cloneBodyUsed
  /\ ~handlerSaw.bodyUsed
  /\ ~JsonParse(req.body).ok
  /\ projectName = "default"

C10_FallsBackToHeader ==
  (HandlerReturned /\ dispatched # << >>) =>
    LET body == JsonParse(req.body)
        header == HeadersGet(req, "X-Project-Name")
    IN  (body.ok /\ body.project_name \in {UNDEFINED, ""}) =>
          Record.projectName = (IF header # NULL THEN header ELSE "default")
====
